---- MODULE Spec2Model ----
(***************************************************************************)
(* A model of ayushma/utils/openaiapi.py: converse(), the streaming        *)
(* consumer loop over token_queue, handle_post_response(),                 *)
(* add_reference_documents() and get_reference().                          *)
(*                                                                         *)
(* Python str values are TLA+ strings; None is the string NoneVal.         *)
(* ChatMessage.objects is the sequence `messages` (creation order).        *)
(***************************************************************************)
EXTENDS Integers, Sequences, FiniteSets, TLC

VARIABLES
    pc,             \* where the converse() generator is: "init" (not yet run),
                    \* "streaming" (in the loop), "final" (ended after the final
                    \* event), "error" (ended after the except block), "returned"
                    \* (ended after the yield of stream=False), "raised" (an
                    \* exception left it)
    req,            \* the arguments of the call: user_language, stream, generate_audio
    reference,      \* converse()'s local `reference`
    llm_calls,      \* how many times the language model was invoked
    queue,          \* token_queue
    pushed,         \* every value put on token_queue so far, in order
    skip_token,     \* converse()'s local skip_token
    chat_response,  \* converse()'s local chat_response
    events,         \* what the generator has yielded so far
    messages,       \* the ChatMessage table
    stats,          \* the keys of the stats dict that hold a time
    raised,         \* the text of the exception that left converse(), or NoneVal
    idle,           \* time units the consumer has seen the queue empty since the last put
    calls           \* the calls this converse() made of its collaborators, in order

vars == <<pc, req, reference, llm_calls, queue, pushed, skip_token,
          chat_response, events, messages, stats, raised, idle, calls>>

NoneVal == "<None>"

----------------------------------------------------------------------------
(* Python string methods, computed as CPython computes them. *)

\* s[i] for a 1-based index
CharAt(s, i) == SubSeq(s, i, i)

\* s[from:] for a 0-based `from`
StrFrom(s, from) == SubSeq(s, from + 1, Len(s))

\* s[:to] for a 0-based `to`
StrUpTo(s, to) == SubSeq(s, 1, to)

\* str.find(sub): the lowest 0-based index where sub occurs in s, or -1
StrFind(s, sub) ==
    LET hits == {i \in 0..(Len(s) - Len(sub)) : SubSeq(s, i + 1, i + Len(sub)) = sub}
    IN  IF hits = {} THEN -1
        ELSE CHOOSE i \in hits : \A j \in hits : i <= j

RECURSIVE LStrip(_, _)
LStrip(s, chars) ==
    IF Len(s) > 0 /\ CharAt(s, 1) \in chars THEN LStrip(StrFrom(s, 1), chars) ELSE s

RECURSIVE RStrip(_, _)
RStrip(s, chars) ==
    IF Len(s) > 0 /\ CharAt(s, Len(s)) \in chars
    THEN RStrip(StrUpTo(s, Len(s) - 1), chars) ELSE s

\* str.strip(chars)
StrStrip(s, chars) == RStrip(LStrip(s, chars), chars)

\* the characters str.strip() removes when called without an argument
Whitespace == {" ", "\t", "\n", "\r"}

\* str.replace(old, new): every non-overlapping occurrence, left to right
RECURSIVE StrReplace(_, _, _)
StrReplace(s, old, new) ==
    LET i == StrFind(s, old)
    IN  IF i = -1 THEN s
        ELSE StrUpTo(s, i) \o new \o StrReplace(StrFrom(s, i + Len(old)), old, new)

\* str.split(sep): the pieces between the occurrences of sep
RECURSIVE StrSplit(_, _)
StrSplit(s, sep) ==
    LET i == StrFind(s, sep)
    IN  IF i = -1 THEN <<s>>
        ELSE <<StrUpTo(s, i)>> \o StrSplit(StrFrom(s, i + Len(sep)), sep)

----------------------------------------------------------------------------
(* Program constants and the values the collaborators hand back. *)

\* the role label converse() counts and strips
RolePrefix == "Ayushma: "

\* the marker add_reference_documents() looks for
ref_text == "References:"

\* the characters add_reference_documents() strips from each document id
DocIdStripChars == {" ", ".", ",", "[", "]", "*", "'", "\""}

\* the language handle_post_response() and the error path do not translate into
DefaultLanguage == "en-IN"

\* token_queue.get(True, timeout=10)
Timeout == 10

\* get_reference(): texts of fewer tokens are embedded in one call
EmbeddingTokenLimit == 8192

\* the external ids Document.objects.get() finds
KnownDocuments == {"12"}

\* the arguments english_text and local_translated_text
english_text_arg == "Hello\nAyushma"
local_translated_text == "Namaste"
ChatId == "chat-1"

\* translate_text(): a text in the target language, never the input itself
translate_text(language, text) == "<" \o language \o ">" \o text

TranslationError == "Translation failed"
UploadError == "Upload failed"
EmbeddingError == "Embedding failed"
PineconeError == "Pinecone query failed"
ModelError == "Model backend failed"
MissingKeyError == "OpenAI-Key header is required to create a chat or converse"

\* str(e) of the TypeError CPython raises for `chat_response += next_token`
\* when next_token is an exception object
ConcatTypeError == "can only concatenate str (not \"Exception\") to str"

AudioBytes == "<mp3>"
UploadedUrl == "https://store/chat-1_uuid.mp3"
ReferenceText == "{\"12\": \"context,\"}"

\* values travelling on token_queue
Token(text) == [kind |-> "token", text |-> text]
RESPONSE_END == [kind |-> "end", text |-> ""]
ErrorValue == [kind |-> "error", text |-> ModelError]

\* values of converse()'s local `reference`
StrRef(text) == [kind |-> "str", text |-> text]
ExceptionRef(text) == [kind |-> "exception", text |-> text]

----------------------------------------------------------------------------
(* Bounds of the model. *)

\* content tokens the backend streams after the role label
MaxBody == 3

\* how far the producer may run ahead of the consumer
MaxQueue == 2

\* how long the clock is followed while the queue stays empty
MaxIdle == 12
\* the calls of converse() followed on one chat
MaxTurns == 2

\* the ways the backend spells the role label at the head of its stream
Leads == { <<>>,
           <<"Ayushma:">>,
           <<"A", "y", "u", "s", "h", "m", "a", ":", " ">> }

\* the content tokens the backend may stream
BodyTokens == {" Hi", " there", "References:", " 12, 7", ""}

\* streams followed token by token beyond MaxBody (Scenario B)
ScenarioB == <<"Ayushma:", " Hi", " there", "References:", " 12, 7">>
Scripts == {ScenarioB}

\* the content tokens of the specification that follows the clock
TimedTokens == {" Hi", ""}

\* complete replies of the non-streaming backend
Replies == { "Ayushma: Hi there",
             "Hi there",
             "Ayushma: Hi Ayushma: there",
             "Ayushma: Hi there\nReferences: 12, 7",
             "Ayushma: Hi\nReferences: 12\nReferences: 7" }

----------------------------------------------------------------------------
(* ChatMessage rows and the functions that write them. *)

\* ChatMessage.objects.create(...): a row as create() stores it
NewChatMessage(messageType, message, original_message, language, meta) ==
    [ messageType         |-> messageType,
      message             |-> message,
      original_message    |-> original_message,
      language            |-> language,
      ayushma_audio_url   |-> NoneVal,
      reference_documents |-> {},
      meta                |-> meta,
      saves               |-> 0 ]

\* meta key -> the stats key it is read from with stats.get()
ResponseMetaKeys ==
    [ translate_start |-> "response_translation_start_time",
      translate_end   |-> "response_translation_end_time",
      reference_start |-> "reference_start_time",
      reference_end   |-> "reference_end_time",
      response_start  |-> "response_start_time",
      response_end    |-> "response_end_time",
      tts_start       |-> "tts_start_time",
      tts_end         |-> "tts_end_time",
      upload_start    |-> "upload_start_time",
      upload_end      |-> "upload_end_time" ]

RequestMetaKeys ==
    [ translate_start |-> "request_translation_start_time",
      translate_end   |-> "request_translation_end_time" ]

\* the meta dict built from stats: the keys whose stats.get() is not None
MetaFrom(keys, st) == {k \in DOMAIN keys : keys[k] \in st}

\* the document ids parsed from the text after the marker
ParseDocIds(listing) ==
    LET parts == StrSplit(listing, ",")
    IN  {StrStrip(parts[i], DocIdStripChars) : i \in DOMAIN parts} \ {""}

\* the index of the last occurrence of the marker, not the first
MarkerIndexLast(chat_text) ==
    LET hits == {i \in 0..(Len(chat_text) - Len(ref_text)) :
                   SubSeq(chat_text, i + 1, i + Len(ref_text)) = ref_text}
    IN  IF hits = {} THEN -1
        ELSE CHOOSE i \in hits : \A j \in hits : i >= j

\* `chat_text.find(ref_text)`
MarkerIndex(chat_text) == StrFind(chat_text, ref_text)

\* add_reference_documents without its early return: with no marker the slices
\* are taken at index -1, as Python takes them
AddReferenceDocumentsNoReturn(chat_message) ==
    LET chat_text     == chat_message.original_message
        ref_start_idx == MarkerIndex(chat_text)
        listing_from  == IF ref_start_idx = -1 THEN Len(ref_text) - 1
                         ELSE ref_start_idx + Len(ref_text)
        cut           == IF ref_start_idx # -1 THEN ref_start_idx
                         ELSE IF Len(chat_text) = 0 THEN 0 ELSE Len(chat_text) - 1
        doc_ids       == ParseDocIds(StrFrom(chat_text, listing_from))
    IN  [chat_message EXCEPT
           !.reference_documents = @ \cup (doc_ids \cap KnownDocuments),
           !.original_message = StrStrip(StrUpTo(chat_text, cut), Whitespace),
           !.saves = @ + 1]

\* add_reference_documents(chat_message): the row afterwards
add_reference_documents(chat_message) ==
    LET chat_text     == chat_message.original_message
        ref_start_idx == MarkerIndex(chat_text)
    IN  IF ref_start_idx = -1 THEN chat_message
        ELSE LET doc_ids == ParseDocIds(StrFrom(chat_text, ref_start_idx + Len(ref_text)))
             IN  [chat_message EXCEPT
                    !.reference_documents = @ \cup (doc_ids \cap KnownDocuments),
                    !.original_message = StrStrip(StrUpTo(chat_text, ref_start_idx), Whitespace),
                    !.saves = @ + 1]

\* one entry of the call log
Call(fn, arg, result) == [fn |-> fn, arg |-> arg, result |-> result]

\* `if generate_audio == True`
Synthesizes(generate_audio) == generate_audio = TRUE

\* the upload attempted whatever text_to_speech handed back
UploadsAlways(ayushma_voice) == TRUE

\* `if ayushma_voice`
Uploads(ayushma_voice) == ayushma_voice # NoneVal

\* the untranslated text handed to text_to_speech
SpeechTextOriginal(translated_chat_response, original_message) == original_message

\* the text handed to text_to_speech: the translated response
SpeechText(translated_chat_response, original_message) == translated_chat_response

\* handle_post_response(): tr, tts and up are what translate_text, text_to_speech
\* and upload_file do when called ("ok"/"fail", "audio"/"none", "ok"/"fail").
\* The result holds the row as stored, the stats keys, the calls made, and either
\* the returned values or the text of the exception that left the function.
handle_post_response(chat_response_arg, user_language, st, language, generate_audio, tr, tts, up) ==
    LET created == NewChatMessage("AYUSHMA", NoneVal, chat_response_arg, language, {})
        stripped == add_reference_documents(created)
        translates == user_language # DefaultLanguage
        stats1 == IF translates THEN st \cup {"response_translation_start_time"} ELSE st
        translated_chat_response ==
            IF translates THEN translate_text(user_language, stripped.original_message)
            ELSE stripped.original_message
        calls1 == <<Call("handle_post_response", chat_response_arg, "")>> \o
                  IF translates
                  THEN <<Call("translate_text", stripped.original_message, tr)>>
                  ELSE <<>>
        stats2 == stats1 \cup {"response_translation_end_time"}
        synthesizes == Synthesizes(generate_audio)
        ayushma_voice == IF synthesizes /\ tts = "audio" THEN AudioBytes ELSE NoneVal
        calls2 == calls1 \o
                  IF synthesizes
                  THEN <<Call("text_to_speech",
                              SpeechText(translated_chat_response, stripped.original_message),
                              tts)>>
                  ELSE <<>>
        stats3 == IF synthesizes THEN stats2 \cup {"tts_start_time", "tts_end_time"}
                  ELSE stats2
        uploads == Uploads(ayushma_voice)
        url == IF uploads THEN UploadedUrl ELSE NoneVal
        calls3 == calls2 \o
                  IF uploads THEN <<Call("upload_file", ayushma_voice, up)>> ELSE <<>>
        stats4 == IF uploads THEN stats3 \cup {"upload_start_time", "upload_end_time"}
                  ELSE stats3
    IN  IF translates /\ tr = "fail"
        THEN [exc |-> TranslationError, chat_message |-> stripped, stats |-> stats1,
              calls |-> calls1,
              translated_chat_response |-> NoneVal, url |-> NoneVal]
        ELSE IF uploads /\ up = "fail"
        THEN [exc |-> UploadError, chat_message |-> stripped,
              stats |-> stats3 \cup {"upload_start_time"},
              calls |-> calls3,
              translated_chat_response |-> NoneVal, url |-> NoneVal]
        ELSE [exc |-> NoneVal,
              chat_message |-> [stripped EXCEPT
                                  !.message = translated_chat_response,
                                  !.ayushma_audio_url = url,
                                  !.meta = MetaFrom(ResponseMetaKeys, stats4),
                                  !.saves = @ + 1],
              stats |-> stats4,
              calls |-> calls3,
              translated_chat_response |-> translated_chat_response,
              url |-> url]

\* get_reference(): embed_ok and query_ok are whether get_embedding and the
\* Pinecone query succeed.  The result is the returned value, or the text of the
\* exception raised.
get_reference(num_tokens, embed_ok, query_ok) ==
    IF num_tokens < EmbeddingTokenLimit /\ ~embed_ok
    THEN [exc |-> NoneVal, value |-> ExceptionRef(EmbeddingError)]
    ELSE IF ~embed_ok
    THEN [exc |-> EmbeddingError, value |-> StrRef("")]
    ELSE IF ~query_ok
    THEN [exc |-> PineconeError, value |-> StrRef("")]
    ELSE [exc |-> NoneVal, value |-> StrRef(ReferenceText)]

\* create_json_response(): the JSON object of one server-sent event
create_json_response(input_text, chat_id, delta, message, stop, ayushma_voice) ==
    [ chat |-> chat_id, input |-> input_text, delta |-> delta, message |-> message,
      stop |-> stop, ayushma_voice |-> ayushma_voice ]

----------------------------------------------------------------------------
(* converse() *)

Languages == {"en-IN", "hi-IN"}

\* language = user_language.split("-")[0]
LanguageOf(user_language) == StrSplit(user_language, "-")[1]

Init ==
    /\ pc = "init"
    /\ req \in [user_language : Languages, stream : BOOLEAN, generate_audio : BOOLEAN]
    /\ reference = StrRef("")
    /\ llm_calls = 0
    /\ queue = <<>>
    /\ pushed = <<>>
    /\ skip_token = 0
    /\ chat_response = ""
    /\ events = <<>>
    /\ messages = <<>>
    /\ stats = {}
    /\ raised = NoneVal
    /\ idle = 0
    /\ calls = <<>>

\* converse() up to the choice between the two modes: the missing-key check, the
\* USER row and the reference.  The result holds the row table, the stats keys,
\* the reference, and the text of the exception raised (or NoneVal).
Prelude(openai_key, references, has_project, num_tokens, embed_ok, query_ok) ==
    LET nurse_query ==
            NewChatMessage("USER", local_translated_text,
                           StrReplace(english_text_arg, "\n", " "),
                           LanguageOf(req.user_language),
                           MetaFrom(RequestMetaKeys, stats))
        created == Append(messages, nurse_query)
        stats1 == stats \cup {"reference_start_time"}
        got == get_reference(num_tokens, embed_ok, query_ok)
        stats2 == stats1 \cup {"reference_end_time", "response_start_time"}
    IN  IF openai_key = ""
        THEN [exc |-> MissingKeyError, messages |-> messages, stats |-> stats,
              reference |-> reference]
        ELSE IF references # NoneVal
        THEN [exc |-> NoneVal, messages |-> created, stats |-> stats2,
              reference |-> StrRef(references)]
        ELSE IF ~has_project
        THEN [exc |-> NoneVal, messages |-> created, stats |-> stats2,
              reference |-> StrRef("")]
        ELSE IF got.exc # NoneVal
        THEN [exc |-> got.exc, messages |-> created, stats |-> stats1,
              reference |-> reference]
        ELSE [exc |-> NoneVal, messages |-> created, stats |-> stats2,
              reference |-> got.value]

\* the inputs of the prelude
Keys == {"", "sk-key"}
ReferenceArgs == {NoneVal, ReferenceText}
TokenCounts == {EmbeddingTokenLimit - 1, EmbeddingTokenLimit}

\* converse(stream=True) up to the first pass of the loop: the producer task is
\* started on the portal, which is the call of the language model.
ConverseStream ==
    /\ pc = "init"
    /\ req.stream
    /\ \E openai_key \in Keys, references \in ReferenceArgs, has_project \in BOOLEAN,
          num_tokens \in TokenCounts, embed_ok \in BOOLEAN, query_ok \in BOOLEAN :
         LET p == Prelude(openai_key, references, has_project, num_tokens, embed_ok, query_ok)
         IN  /\ messages' = p.messages
             /\ stats' = p.stats
             /\ reference' = p.reference
             /\ IF p.exc # NoneVal
                THEN /\ pc' = "raised"
                     /\ raised' = p.exc
                     /\ UNCHANGED <<llm_calls, skip_token>>
                ELSE /\ pc' = "streaming"
                     /\ llm_calls' = llm_calls + 1
                     /\ skip_token' = Len(RolePrefix)
                     /\ UNCHANGED raised
    /\ chat_response' = ""
    /\ UNCHANGED <<req, queue, pushed, events, idle, calls>>

\* converse(stream=False): the whole call, to the yield of the stored row.
\* reply is what get_response returns, or "fail" when it raises.
ConverseNoStream ==
    /\ pc = "init"
    /\ ~req.stream
    /\ \E openai_key \in Keys, references \in ReferenceArgs, has_project \in BOOLEAN,
          num_tokens \in TokenCounts, embed_ok \in BOOLEAN, query_ok \in BOOLEAN,
          reply \in Replies \cup {"fail"},
          tr \in {"ok", "fail"}, tts \in {"audio", "none"}, up \in {"ok", "fail"} :
         LET p == Prelude(openai_key, references, has_project, num_tokens, embed_ok, query_ok)
             asked == StrReplace(english_text_arg, "\n", " ")
             response == StrReplace(reply, RolePrefix, "")
             h == handle_post_response(response, req.user_language,
                                       p.stats \cup {"response_end_time"},
                                       LanguageOf(req.user_language),
                                       req.generate_audio, tr, tts, up)
         IN  /\ reference' = p.reference
             /\ IF p.exc # NoneVal
                THEN /\ pc' = "raised"
                     /\ raised' = p.exc
                     /\ messages' = p.messages
                     /\ stats' = p.stats
                     /\ UNCHANGED <<llm_calls, chat_response, events, calls>>
                ELSE IF reply = "fail"
                THEN /\ pc' = "raised"
                     /\ raised' = ModelError
                     /\ messages' = p.messages
                     /\ stats' = p.stats
                     /\ llm_calls' = llm_calls + 1
                     /\ calls' = Append(calls, Call("get_response", asked, "fail"))
                     /\ UNCHANGED <<chat_response, events>>
                ELSE /\ llm_calls' = llm_calls + 1
                     /\ chat_response' = response
                     /\ calls' = Append(calls, Call("get_response", asked, reply)) \o h.calls
                     /\ messages' = Append(p.messages, h.chat_message)
                     /\ stats' = h.stats
                     /\ IF h.exc # NoneVal
                        THEN /\ pc' = "raised"
                             /\ raised' = h.exc
                             /\ UNCHANGED events
                        ELSE /\ pc' = "returned"
                             /\ events' = Append(events, h.chat_message)
                             /\ UNCHANGED raised
    /\ UNCHANGED <<req, queue, pushed, skip_token, idle>>

----------------------------------------------------------------------------
(* The producer task: LangChainHelper.get_aresponse on the portal. *)

PushedTexts == [i \in 1..Len(pushed) |-> pushed[i].text]

\* the leads the stream so far has spelled out in full, followed by content only
CompleteLeads(tokens) ==
    {l \in Leads : /\ Len(l) <= Len(pushed)
                   /\ SubSeq(PushedTexts, 1, Len(l)) = l
                   /\ \A i \in (Len(l) + 1)..Len(pushed) : PushedTexts[i] \in tokens}

\* what the backend may put next: the next piece of a lead, a content token
\* after a lead, the next token of a scripted stream, or the end of the stream
NextItems(tokens, scripts) ==
    LET n == Len(pushed)
        lead_steps == {Token(l[n + 1]) :
                         l \in {k \in Leads : Len(k) > n /\ SubSeq(k, 1, n) = PushedTexts}}
        body_steps == IF \E l \in CompleteLeads(tokens) : n - Len(l) < MaxBody
                      THEN {Token(t) : t \in tokens} ELSE {}
        script_steps == {Token(sc[n + 1]) :
                           sc \in {k \in scripts : Len(k) > n /\ SubSeq(k, 1, n) = PushedTexts}}
        last_steps == IF CompleteLeads(tokens) # {} \/ PushedTexts \in scripts
                      THEN {RESPONSE_END, ErrorValue} ELSE {}
    IN  lead_steps \cup body_steps \cup script_steps \cup last_steps

ProducerFinished == pushed # <<>> /\ pushed[Len(pushed)].kind # "token"

\* token_queue.put(value): a token, the sentinel on completion, an error value on
\* failure; nothing follows the sentinel or the error value
Put(tokens, scripts) ==
    /\ pc = "streaming"
    /\ ~ProducerFinished
    /\ Len(queue) < MaxQueue
    /\ \E item \in NextItems(tokens, scripts) :
         /\ queue' = Append(queue, item)
         /\ pushed' = Append(pushed, item)
    /\ idle' = 0
    /\ UNCHANGED <<pc, req, reference, llm_calls, skip_token, chat_response,
                   events, messages, stats, raised, calls>>

\* the producer over the full token alphabet and the scripted streams
Produce == Put(BodyTokens, Scripts)

\* the producer of the timed specification
ProduceTimed == Put(TimedTokens, {})

----------------------------------------------------------------------------
(* The consumer loop of converse(). *)

\* `if token_queue.empty(): continue` while a time unit passes: the loop spins
\* and get() is never entered with an empty queue
Tick ==
    /\ pc = "streaming"
    /\ queue = <<>>
    /\ idle < MaxIdle
    /\ idle' = idle + 1
    /\ UNCHANGED <<pc, req, reference, llm_calls, queue, pushed, skip_token,
                   chat_response, events, messages, stats, raised, calls>>

\* `if skip_token > 0`: the value taken from the queue is dropped, whatever it is
SkipToken ==
    /\ pc = "streaming"
    /\ queue # <<>>
    /\ skip_token > 0
    /\ queue' = Tail(queue)
    /\ skip_token' = skip_token - 1
    /\ UNCHANGED <<pc, req, reference, llm_calls, pushed, chat_response, events,
                   messages, stats, raised, idle, calls>>

\* the event yielded by the except block: str(e) as the message
ErrorEvent(error_text) ==
    create_json_response(local_translated_text, ChatId, "", error_text, TRUE, NoneVal)

\* a final event that repeats the whole text as its fragment
FinalEventEchoingText(translated_chat_response, url) ==
    create_json_response(local_translated_text, ChatId, translated_chat_response,
                         translated_chat_response, TRUE, url)

\* the event yielded after handle_post_response
FinalEvent(translated_chat_response, url) ==
    create_json_response(local_translated_text, ChatId, "", translated_chat_response,
                         TRUE, url)

\* the `except Exception as e` block, entered with str(e) = error_text, the row
\* table msgs, the stats keys st and the calls made in the step so far
ExceptHandler(error_text, msgs, st, made) ==
    /\ stats' = st
    /\ \E tr \in {"ok", "fail"} :
         LET translates == req.user_language # DefaultLanguage
             made1 == made \o IF translates
                              THEN <<Call("translate_text", error_text, tr)>>
                              ELSE <<>>
         IN  /\ calls' = calls \o made1
             /\ IF translates /\ tr = "fail"
                THEN /\ pc' = "raised"
                     /\ raised' = TranslationError
                     /\ messages' = msgs
                     /\ UNCHANGED events
                ELSE LET translated_error_text ==
                             IF translates
                             THEN translate_text(req.user_language, error_text)
                             ELSE error_text
                     IN  /\ messages' = Append(msgs,
                               NewChatMessage("AYUSHMA", translated_error_text, error_text,
                                              LanguageOf(req.user_language),
                                              MetaFrom(ResponseMetaKeys, st)))
                         /\ events' = Append(events, ErrorEvent(error_text))
                         /\ pc' = "error"
                         /\ UNCHANGED raised

\* the token put in front of the text so far, not behind it
AccumulateReversed(response, token_text) == token_text \o response

\* `chat_response += next_token`: the text so far with the token appended
Accumulate(response, token_text) == response \o token_text

\* a delta event yielded with the stop flag set
DeltaEventStopped(token_text, response) ==
    create_json_response(local_translated_text, ChatId, token_text, response,
                         TRUE, NoneVal)

\* the event yielded for a token
DeltaEvent(token_text, response) ==
    create_json_response(local_translated_text, ChatId, token_text, response,
                         FALSE, NoneVal)

\* `chat_response += next_token` and the yield of the delta; an error value is
\* no str, the += raises TypeError and the except block runs
AppendToken ==
    /\ pc = "streaming"
    /\ queue # <<>>
    /\ skip_token = 0
    /\ Head(queue).kind # "end"
    /\ queue' = Tail(queue)
    /\ LET next_token == Head(queue)
       IN  IF next_token.kind = "token"
           THEN /\ chat_response' = Accumulate(chat_response, next_token.text)
                /\ events' = Append(events, DeltaEvent(next_token.text, chat_response'))
                /\ UNCHANGED <<pc, messages, stats, raised, calls>>
           ELSE /\ ExceptHandler(ConcatTypeError, messages, stats, <<>>)
                /\ UNCHANGED chat_response
    /\ UNCHANGED <<req, reference, llm_calls, pushed, skip_token, idle>>

\* `if next_token is RESPONSE_END`: handle_post_response, the yield of the final
\* event and the break; an exception of handle_post_response enters the except block
FinishResponse ==
    /\ pc = "streaming"
    /\ queue # <<>>
    /\ skip_token = 0
    /\ Head(queue).kind = "end"
    /\ queue' = Tail(queue)
    /\ \E tr \in {"ok", "fail"}, tts \in {"audio", "none"}, up \in {"ok", "fail"} :
         LET h == handle_post_response(chat_response, req.user_language,
                                       stats \cup {"response_end_time"},
                                       LanguageOf(req.user_language),
                                       req.generate_audio, tr, tts, up)
         IN  IF h.exc # NoneVal
             THEN ExceptHandler(h.exc, Append(messages, h.chat_message), h.stats, h.calls)
             ELSE /\ messages' = Append(messages, h.chat_message)
                  /\ stats' = h.stats
                  /\ calls' = calls \o h.calls
                  /\ events' = Append(events, FinalEvent(h.translated_chat_response, h.url))
                  /\ pc' = "final"
                  /\ UNCHANGED raised
    /\ UNCHANGED <<req, reference, llm_calls, pushed, skip_token, chat_response, idle>>

Next ==
    \/ ConverseStream
    \/ ConverseNoStream
    \/ Produce
    \/ SkipToken
    \/ AppendToken
    \/ FinishResponse

Spec == Init /\ [][Next]_vars

\* the same program with the clock followed while the queue is empty
NextTimed ==
    \/ ConverseStream
    \/ ConverseNoStream
    \/ ProduceTimed
    \/ Tick
    \/ SkipToken
    \/ AppendToken
    \/ FinishResponse

SpecTimed == Init /\ [][NextTimed]_vars

\* the requests followed after the first one: plain text in the default language
FollowUpRequests ==
    [user_language : {DefaultLanguage}, stream : {FALSE}, generate_audio : {FALSE}]

\* the next call of converse() on the same chat, once the previous one has
\* ended.  The caller either leaves `stats` out, and the call gets the dict of
\* the `stats={}` default, which is made once and shared by every such call,
\* or passes a dict of its own.  The rows stay in the table; what is local to a
\* call starts again.
NewCall ==
    /\ pc \in {"returned", "raised", "final", "error"}
    /\ Cardinality({i \in DOMAIN messages : messages[i].messageType = "USER"}) < MaxTurns
    /\ pc' = "init"
    /\ \E next_req \in FollowUpRequests, explicit_stats \in BOOLEAN :
         /\ req' = next_req
         /\ stats' = IF explicit_stats THEN {} ELSE stats
    /\ reference' = StrRef("")
    /\ llm_calls' = 0
    /\ queue' = <<>>
    /\ pushed' = <<>>
    /\ skip_token' = 0
    /\ chat_response' = ""
    /\ events' = <<>>
    /\ raised' = NoneVal
    /\ idle' = 0
    /\ calls' = <<>>
    /\ UNCHANGED messages

\* a chat whose calls are all made with stream=False
InitTurns ==
    /\ Init
    /\ ~req.stream

NextTurns ==
    \/ ConverseNoStream
    \/ NewCall

SpecTurns == InitTurns /\ [][NextTurns]_vars

----------------------------------------------------------------------------
(* Vocabulary of the properties. *)

\* the rows of one role
Turns(messageType) == {i \in DOMAIN messages : messages[i].messageType = messageType}

\* the positions of the terminal events of a streaming turn
StopEvents == {i \in DOMAIN events : events[i].stop}

\* the fragments of the delta events, in the order yielded
DeltaFragments ==
    LET deltas == SelectSeq(events, LAMBDA e : ~e.stop)
    IN  [i \in 1..Len(deltas) |-> deltas[i].delta]

RECURSIVE Concat(_)
Concat(texts) == IF texts = <<>> THEN "" ELSE Head(texts) \o Concat(Tail(texts))

\* how many values the consumer has taken from the queue
Popped == Len(pushed) - Len(queue)

\* the tokens taken from the queue after the skip count ran out
PostSkipTokens ==
    LET taken == SubSeq(pushed, Len(RolePrefix) + 1, Popped)
        tokens == SelectSeq(taken, LAMBDA v : v.kind = "token")
    IN  [i \in 1..Len(tokens) |-> tokens[i].text]

\* the step of the consumer that takes a value of this kind from the queue
Takes(kind) ==
    /\ pc = "streaming"
    /\ queue # <<>>
    /\ Head(queue).kind = kind
    /\ queue' = Tail(queue)

----------------------------------------------------------------------------
(* C1: when the producer has put nothing on the queue for more than Timeout
   time units, the consumer has emitted exactly one terminal Error event and
   stored exactly one error ASSISTANT row, and the turn is over (so no delta
   follows).  Checked under SpecTimed. *)
C1_TimeoutSurfacesError ==
    idle > Timeout =>
        /\ pc = "error"
        /\ Cardinality(StopEvents) = 1
        /\ Cardinality(Turns("AYUSHMA")) = 1

(* C2: whenever the consumer takes the sentinel from the queue, after any
   number of tokens, that step runs finalization, emits exactly one Final event
   with stop = true as the last event, and ends the turn. *)
C2_SentinelReachesFinal ==
    [][ Takes("end") =>
          /\ pc' = "final"
          /\ Len(events') = Len(events) + 1
          /\ events'[Len(events')].stop
          /\ Cardinality({i \in DOMAIN events' : events'[i].stop}) = 1 ]_vars

(* C3: Scenario B: once the stream 'Ayushma:', ' Hi', ' there', 'References:',
   ' 12, 7', sentinel has been consumed (default language, no audio), no event
   was emitted for 'Ayushma:', ' Hi' and ' there' were emitted as the first two
   delta events, and the turn ended with a Final event whose text is
   'Hi there'. *)
C3_ScenarioB ==
    ( /\ req.stream
      /\ req.user_language = DefaultLanguage
      /\ ~req.generate_audio
      /\ pushed = [i \in 1..(Len(ScenarioB) + 1) |->
                     IF i <= Len(ScenarioB) THEN Token(ScenarioB[i]) ELSE RESPONSE_END]
      /\ queue = <<>> )
    => /\ pc = "final"
       /\ Len(DeltaFragments) >= 2
       /\ SubSeq(DeltaFragments, 1, 2) = <<" Hi", " there">>
       /\ events[Len(events)].stop
       /\ events[Len(events)].message = "Hi there"

(* C4: in a streaming turn the cumulative text equals the concatenation, in
   the order pushed, of the tokens consumed after the prefix skip; there is one
   delta event per such token, the i-th carrying the i-th token as its fragment
   and the concatenation of the first i tokens as its message; an empty-string
   token is a token like any other. *)
C4_CumulativeConcat ==
    (req.stream /\ pc # "init") =>
        /\ chat_response = Concat(PostSkipTokens)
        /\ DeltaFragments = PostSkipTokens
        /\ \A i \in 1..Len(PostSkipTokens) :
             /\ ~events[i].stop
             /\ events[i].delta = PostSkipTokens[i]
             /\ events[i].message = Concat(SubSeq(PostSkipTokens, 1, i))

\* C4's case: an empty-string token was consumed after the skip, and a further
\* token after it
C4_Witness ==
    /\ pc = "streaming"
    /\ Len(PostSkipTokens) = 3
    /\ PostSkipTokens[2] = ""
    /\ PostSkipTokens[3] = " there"
    /\ Len(events) = 3

(* C5: in a streaming turn a terminal event (stop = true) is the last event
   emitted: there is at most one and no event of any kind follows it, and
   once it is emitted the turn is over, after Final and after Error alike. *)
C5_TerminalIsLast ==
    req.stream =>
        /\ \A i \in DOMAIN events : events[i].stop => i = Len(events)
        /\ (StopEvents # {} <=> pc \in {"final", "error"})

\* C5's case: delta events were emitted and then the terminal event of the
\* error path
C5_Witness ==
    /\ req.stream
    /\ pc = "error"
    /\ Len(events) >= 3
    /\ events[Len(events)].stop

(* C6: Scenario C: whenever the consumer takes the producer's error value from
   the queue, at any position of the stream, that step ends the loop, emits
   exactly one terminal event after the deltas already emitted, and stores
   exactly one error ASSISTANT row whose text is the upstream error's text. *)
C6_ProducerErrorSurfaced ==
    [][ Takes("error") =>
          /\ pc' = "error"
          /\ Len(events') = Len(events) + 1
          /\ SubSeq(events', 1, Len(events)) = events
          /\ events'[Len(events')].stop
          /\ Cardinality({i \in DOMAIN messages' :
                            messages'[i].messageType = "AYUSHMA"}) = 1
          /\ messages'[Len(messages')].original_message = Head(queue).text ]_vars

(* C7: every turn that has emitted its terminal event has created exactly one
   USER row and exactly one ASSISTANT row. *)
C7_OneTurnPerRole ==
    (req.stream /\ pc \in {"final", "error"}) =>
        /\ Cardinality(Turns("USER")) = 1
        /\ Cardinality(Turns("AYUSHMA")) = 1

(* C8: whenever finalization runs in a streaming turn (the sentinel is taken
   with the skip count at zero), whatever translation, speech synthesis and
   upload do, the step stores the row's display text and timing snapshot and
   the turn ends with the Final event, not with an Error event. *)
C8_DegradationNotFatal ==
    [][ (Takes("end") /\ skip_token = 0) =>
          /\ pc' = "final"
          /\ messages'[Len(messages')].message # NoneVal
          /\ "translate_end" \in messages'[Len(messages')].meta ]_vars

(* C9: whenever the except block of the streaming loop is entered (here: the
   error value is taken with the skip count at zero), the turn stores an error
   row and emits a terminal event; no exception leaves converse(). *)
C9_ErrorPathNeverRaises ==
    [][ (Takes("error") /\ skip_token = 0) =>
          /\ pc' = "error"
          /\ events'[Len(events')].stop
          /\ messages'[Len(messages')].messageType = "AYUSHMA" ]_vars

\* get_reference was called and failed: it raised, or handed back the exception
RetrievalFailed ==
    \/ raised \in {EmbeddingError, PineconeError}
    \/ reference.kind = "exception"

(* C10: whenever get_reference has failed, the failure has been raised to the
   caller, the language model was never called and no ASSISTANT row exists. *)
C10_RetrievalFailureAborts ==
    RetrievalFailed =>
        /\ pc = "raised"
        /\ llm_calls = 0
        /\ Turns("AYUSHMA") = {}

\* the language model failed: get_response raised, or the consumer took the
\* producer's error value from the queue
ModelFailed ==
    \/ \E i \in DOMAIN calls : calls[i].fn = "get_response" /\ calls[i].result = "fail"
    \/ \E i \in 1..Popped : pushed[i].kind = "error"

(* C11: whenever the language model has failed, in either mode, no exception
   has left converse(): the failure is stored as an error ASSISTANT row whose
   text is the failure's text, and the call has ended with a terminal error
   output. *)
C11_ModelFailureRecorded ==
    ModelFailed =>
        /\ pc # "raised"
        /\ \E i \in Turns("AYUSHMA") : messages[i].original_message = ModelError
        /\ (req.stream => pc = "error")

\* the positions of the calls of one collaborator in the call log
CallsOf(fn) == {i \in DOMAIN calls : calls[i].fn = fn}

(* C12: with generate_audio false no stored ASSISTANT row has an audio
   reference, no event (or yielded row) carries one, and neither text_to_speech
   nor upload_file is called; in every turn upload_file is called only right
   after a text_to_speech call that returned audio. *)
C12_NoAudioNoUpload ==
    /\ ~req.generate_audio =>
          /\ \A i \in Turns("AYUSHMA") : messages[i].ayushma_audio_url = NoneVal
          /\ \A i \in DOMAIN events :
                IF req.stream THEN events[i].ayushma_voice = NoneVal
                ELSE events[i].ayushma_audio_url = NoneVal
          /\ CallsOf("text_to_speech") = {}
          /\ CallsOf("upload_file") = {}
    /\ \A i \in CallsOf("upload_file") :
          /\ i > 1
          /\ calls[i - 1].fn = "text_to_speech"
          /\ calls[i - 1].result = "audio"

\* C12's case: a streaming turn without audio has run handle_post_response and
\* emitted its final event
C12_Witness ==
    /\ req.stream
    /\ ~req.generate_audio
    /\ pc = "final"
    /\ CallsOf("handle_post_response") # {}
    /\ messages[Len(messages)].message # NoneVal

(* C13: wire contract of a streaming turn: the events yielded for tokens
   (Delta) have stop = false and a null audio reference; every other event (the
   terminal one, Final or Error) has stop = true and an empty fragment; so a
   non-null audio reference appears only on a terminal event. *)
C13_WireContract ==
    req.stream =>
        \A i \in DOMAIN events :
            /\ DOMAIN events[i] = {"chat", "input", "delta", "message", "stop", "ayushma_voice"}
            /\ IF i <= Len(PostSkipTokens)
               THEN /\ events[i].stop = FALSE
                    /\ events[i].ayushma_voice = NoneVal
               ELSE /\ events[i].stop = TRUE
                    /\ events[i].delta = ""
            /\ (events[i].ayushma_voice # NoneVal => events[i].stop = TRUE)

\* C13's case: delta events, then a final event that carries an audio reference
C13_Witness ==
    /\ req.stream
    /\ pc = "final"
    /\ Len(events) >= 3
    /\ ~events[1].stop
    /\ events[Len(events)].ayushma_voice = UploadedUrl
    /\ events[Len(events)].message # ""

(* C14: Scenario D: when a turn has ended with its final output, the stored
   row's original text holds no marker; its display text is the translation of
   that marker-stripped text when the caller's language is not the default, and
   that text unchanged when it is; the Final event's message is that display
   text; and text_to_speech, when called, was handed that display text. *)
C14_TranslatedOutput ==
    pc \in {"final", "returned"} =>
        LET row == messages[Len(messages)]
        IN  /\ StrFind(row.original_message, ref_text) = -1
            /\ row.message =
                 IF req.user_language # DefaultLanguage
                 THEN translate_text(req.user_language, row.original_message)
                 ELSE row.original_message
            /\ (req.user_language # DefaultLanguage => row.message # chat_response)
            /\ (pc = "final" => events[Len(events)].message = row.message)
            /\ \A i \in CallsOf("text_to_speech") : calls[i].arg = row.message

\* C14's case: a streaming turn in another language whose raw text held the
\* marker has been translated, synthesized and ended with the Final event
C14_Witness ==
    /\ pc = "final"
    /\ req.user_language = "hi-IN"
    /\ StrFind(chat_response, ref_text) > 0
    /\ CallsOf("translate_text") # {}
    /\ CallsOf("text_to_speech") # {}

\* the row handle_post_response created in this call (the USER row precedes it)
PostResponseRow == messages[2]

(* C15: add_reference_documents is idempotent: run again on the row it has
   already been through, it finds no marker, leaves the stored text unchanged,
   adds no reference ids and saves nothing. *)
C15_MarkerExtractionIdempotent ==
    CallsOf("handle_post_response") # {} =>
        LET again == add_reference_documents(PostResponseRow)
        IN  /\ StrFind(PostResponseRow.original_message, ref_text) = -1
            /\ again.original_message = PostResponseRow.original_message
            /\ again.reference_documents = PostResponseRow.reference_documents
            /\ again.saves = PostResponseRow.saves

\* C15's case: the raw text held the marker twice, and the row went through
\* add_reference_documents, which cut it at the first
C15_Witness ==
    /\ CallsOf("handle_post_response") # {}
    /\ LET first == StrFind(chat_response, ref_text)
       IN  /\ first > 0
           /\ StrFind(StrFrom(chat_response, first + Len(ref_text)), ref_text) # -1
           /\ PostResponseRow.original_message =
                StrStrip(StrUpTo(chat_response, first), Whitespace)
    /\ PostResponseRow.saves >= 1

\* the text handle_post_response was called with
PostResponseText == calls[CHOOSE i \in CallsOf("handle_post_response") : TRUE].arg

(* C16: when the assistant text holds no reference marker, the row's reference
   set is empty, its stored original text is exactly the text passed to
   handle_post_response (not even stripped), and add_reference_documents saved
   nothing: the only save is the one that ends handle_post_response. *)
C16_NoMarkerNoChange ==
    (CallsOf("handle_post_response") # {} /\ StrFind(PostResponseText, ref_text) = -1) =>
        /\ PostResponseRow.reference_documents = {}
        /\ PostResponseRow.original_message = PostResponseText
        /\ PostResponseRow.saves = IF PostResponseRow.message = NoneVal THEN 0 ELSE 1

\* C16's case: a text without marker, with a leading blank a strip would remove,
\* went through handle_post_response to the final event
C16_Witness ==
    /\ pc = "final"
    /\ CallsOf("handle_post_response") # {}
    /\ StrFind(PostResponseText, ref_text) = -1
    /\ Len(PostResponseText) > 0
    /\ CharAt(PostResponseText, 1) = " "
    /\ PostResponseRow.saves = 1

(* C17: in a streaming turn handle_post_response runs exactly once when the
   turn ends with the Final event, with its row saved by then; it has not run
   while tokens are still being taken, and it has not run at all when the turn
   ends on the error path. *)
C17_PostResponseOncePerSuccess ==
    req.stream =>
        /\ pc = "streaming" => CallsOf("handle_post_response") = {}
        /\ pc = "final" => /\ Cardinality(CallsOf("handle_post_response")) = 1
                           /\ PostResponseText = chat_response
                           /\ PostResponseRow.saves >= 1
        /\ pc = "error" => CallsOf("handle_post_response") = {}

\* the ASSISTANT row written last
LastRow == messages[Len(messages)]

(* C18: the timing marks stored with a turn were written during that turn: a
   turn without speech synthesis stores no tts or upload mark, and a turn in the
   default language stores no translation-start mark, whatever the earlier
   calls on the chat were. *)
C18_StatsPerRequest ==
    pc = "returned" =>
        /\ ~req.generate_audio =>
               LastRow.meta \cap {"tts_start", "tts_end", "upload_start", "upload_end"} = {}
        /\ req.user_language = DefaultLanguage => "translate_start" \notin LastRow.meta

\* what get_response returned in this call
ModelReply == calls[CHOOSE i \in CallsOf("get_response") : TRUE].result

\* the reply with the role prefix taken once from its front
WithoutLeadingPrefix(reply) ==
    IF StrFind(reply, RolePrefix) = 0 THEN StrFrom(reply, Len(RolePrefix)) ELSE reply

(* C19: in non-streaming mode the text given to the pipeline is the reply with
   the role prefix removed once from its front, later occurrences kept; no
   delta event exists and the output is exactly the one persisted row. *)
C19_PrefixStrippedOnce ==
    (~req.stream /\ pc = "returned") =>
        /\ chat_response = WithoutLeadingPrefix(ModelReply)
        /\ PostResponseText = chat_response
        /\ events = <<LastRow>>

(* C20: in a streaming turn the message of the terminal event is the display
   text of the ASSISTANT row stored for the turn, after the Final event and
   after the Error event, in every caller language. *)
C20_TerminalMatchesRow ==
    (req.stream /\ pc \in {"final", "error"}) =>
        /\ StopEvents # {}
        /\ events[Len(events)].message = LastRow.message

====
